---- MODULE Spec2Model ----
(***************************************************************************)
(* Model of mfabrik.zoho.crm.CRM: the XML request encoder                  *)
(* (_prepare_xml_request), the JSON response decoder                       *)
(* (_parse_json_response) and the record operations built on them.         *)
(*                                                                         *)
(* Python values are tagged records, so that a string, a number, a dict    *)
(* and a list stay distinguishable:                                        *)
(*   PyStr(s), PyInt(n), PyBool(b), PyNone, PyList(xs), PyDict(items)      *)
(* A dict is its sequence of <<key, value>> items in iteration order, with *)
(* unique string keys.                                                     *)
(***************************************************************************)
EXTENDS Integers, Sequences, FiniteSets, TLC

VARIABLES op, args, pc, calls, response, responses, ret

vars == <<op, args, pc, calls, response, responses, ret>>

(***************************************************************************)
(* Bounds of the model.                                                    *)
(***************************************************************************)
\* longest list of rows / leads handed to an operation
MaxRows == 2
\* longest list of nested records under one module key of an attached group
MaxNested == 2

(***************************************************************************)
(* Python values.                                                          *)
(***************************************************************************)
PyNone == [t |-> "none"]
PyStr(s) == [t |-> "str", s |-> s]
PyInt(n) == [t |-> "int", n |-> n]
PyBool(b) == [t |-> "bool", b |-> b]
PyList(xs) == [t |-> "list", xs |-> xs]
PyDict(items) == [t |-> "dict", items |-> items]

\* sequences over S of length at most n
SeqUpTo(S, n) == UNION {[1..k -> S] : k \in 0..n}

\* `key in d`
Has(d, key) == \E i \in DOMAIN d.items : d.items[i][1] = key

\* d[key] for a key that is present
GetItem(d, key) == d.items[CHOOSE i \in DOMAIN d.items : d.items[i][1] = key][2]

\* d.get(key): None when the key is absent
Get(d, key) == IF Has(d, key) THEN GetItem(d, key) ELSE PyNone

\* d[key] = value: an existing key keeps its place and takes the new value
SetItem(d, key, value) ==
    IF Has(d, key)
    THEN PyDict([i \in DOMAIN d.items |->
                    IF d.items[i][1] = key THEN <<key, value>> ELSE d.items[i]])
    ELSE PyDict(Append(d.items, <<key, value>>))

\* d.update(e), item by item in e's order
RECURSIVE UpdateFrom(_, _, _)
UpdateFrom(d, e, i) ==
    IF i > Len(e.items) THEN d
    ELSE UpdateFrom(SetItem(d, e.items[i][1], e.items[i][2]), e, i + 1)

Update(d, e) == UpdateFrom(d, e, 1)

\* Python's truth value of an object
Truthy(v) ==
    CASE v.t = "none" -> FALSE
      [] v.t = "str"  -> v.s # ""
      [] v.t = "int"  -> v.n # 0
      [] v.t = "bool" -> v.b
      [] v.t = "list" -> v.xs # <<>>
      [] v.t = "dict" -> v.items # <<>>

Digit == <<"0", "1", "2", "3", "4", "5", "6", "7", "8", "9">>

\* the decimal digits of a natural number
RECURSIVE DecStr(_)
DecStr(n) == IF n < 10 THEN Digit[n + 1] ELSE DecStr(n \div 10) \o Digit[(n % 10) + 1]

\* str(value) of a scalar
str(v) ==
    CASE v.t = "str"  -> v.s
      [] v.t = "int"  -> IF v.n < 0 THEN "-" \o DecStr(0 - v.n) ELSE DecStr(v.n)
      [] v.t = "bool" -> IF v.b THEN "True" ELSE "False"
      [] v.t = "none" -> "None"

\* what a call gives back: a value, or an exception
Returned(v) == [kind |-> "returned", value |-> v]
Raised(e) == [kind |-> "raised", exc |-> e]
NoResult == [kind |-> "none"]

(***************************************************************************)
(* XML elements (xml.etree.ElementTree.Element).                           *)
(***************************************************************************)
Element(tag, attrib) ==
    [tag |-> tag, attrib |-> attrib, text |-> PyNone, children |-> <<>>]

\* parent.append(child); SubElement(parent, ...) appends the new element too
AppendChild(parent, child) ==
    [parent EXCEPT !.children = Append(parent.children, child)]

SetText(el, text) == [el EXCEPT !.text = text]

(***************************************************************************)
(* CRM._prepare_xml_request                                                *)
(***************************************************************************)
\* the mutated row counter is never advanced
NextNo_stuck(no) == no

\* no += 1
NextNo(no) == no + 1

\* the mutated attachment counter starts over with every nested record
NextAttachNo_restart(mod_attach_no) == 1

\* mod_attach_no += 1
NextAttachNo(mod_attach_no) == mod_attach_no + 1

\* mod_fl = SubElement(fl, module_key, no=str(mod_attach_no)) with one
\* attach_fl per item of the nested record, its text the item's value as it is
AttachedElement(module_key, mod_attach_no, mod_item, element_name) ==
    [tag      |-> module_key,
     attrib   |-> [no |-> str(PyInt(mod_attach_no))],
     text     |-> PyNone,
     children |-> [j \in DOMAIN mod_item.items |->
                      SetText(Element(element_name, [val |-> mod_item.items[j][1]]),
                              mod_item.items[j][2])]]

\* for mod_item in module_value: ...; gives the element and the counter after it
RECURSIVE ItemLoop(_, _, _, _, _, _)
ItemLoop(fl, module_key, module_value, j, mod_attach_no, element_name) ==
    IF j > Len(module_value.xs) THEN [fl |-> fl, mod_attach_no |-> mod_attach_no]
    ELSE ItemLoop(AppendChild(fl, AttachedElement(module_key, mod_attach_no,
                                                  module_value.xs[j], element_name)),
                  module_key, module_value, j + 1,
                  NextAttachNo(mod_attach_no), element_name)

\* for module_key, module_value in value.items(): ...; the counter is carried
\* from one module key to the next
RECURSIVE ModuleLoop(_, _, _, _, _)
ModuleLoop(fl, value, k, mod_attach_no, element_name) ==
    IF k > Len(value.items) THEN fl
    ELSE LET done == ItemLoop(fl, value.items[k][1], value.items[k][2], 1,
                              mod_attach_no, element_name)
         IN ModuleLoop(done.fl, value, k + 1, done.mod_attach_no, element_name)

\* the mutated field text is the value itself, not its string
FieldText_verbatim(value) == value

\* fl.text for a value that is no dict: a string (str or unicode, Python 2)
\* as it is, anything else str()
FieldText(value) == IF value.t = "str" THEN value ELSE PyStr(str(value))

\* the element built for one (key, value) item of a lead
FieldElement(element_name, key, value) ==
    LET fl == Element(element_name, [val |-> key])
    IN IF value.t = "dict"
       THEN ModuleLoop(fl, value, 1, 1, element_name)
       ELSE SetText(fl, FieldText(value))

\* row = Element("row", no=str(no)) with one field element per item of the lead
RowElement(no, lead, element_name) ==
    [tag      |-> "row",
     attrib   |-> [no |-> str(PyInt(no))],
     text     |-> PyNone,
     children |-> [i \in DOMAIN lead.items |->
                      FieldElement(element_name, lead.items[i][1], lead.items[i][2])]]

\* for lead in leads: ...; the assert stops the loop at the first non-dict
RECURSIVE RowLoop(_, _, _, _, _)
RowLoop(root, leads, k, no, element_name) ==
    IF k > Len(leads) THEN Returned(root)
    ELSE IF leads[k].t # "dict" THEN Raised("AssertionError")
    ELSE RowLoop(AppendChild(root, RowElement(no, leads[k], element_name)),
                 leads, k + 1, NextNo(no), element_name)

_prepare_xml_request(module, leads, element_name) ==
    RowLoop(Element(module, <<>>), leads, 1, 1, element_name)

(***************************************************************************)
(* CRM._parse_json_response                                                *)
(***************************************************************************)
\* the mutated marker test never sees the marker
NoData_never(data) == FALSE

\* data["response"].get("nodata")
NoData(data) == Truthy(Get(GetItem(data, "response"), "nodata"))

\* the mutated lookup takes a missing step of the path for an empty row list
Rows_lenient(data, module) ==
    LET resp == GetItem(data, "response")
    IN IF /\ Has(resp, "result")
          /\ Has(GetItem(resp, "result"), module)
          /\ Has(GetItem(GetItem(resp, "result"), module), "row")
       THEN Returned(GetItem(GetItem(GetItem(resp, "result"), module), "row"))
       ELSE Returned(PyList(<<>>))

\* data["response"]["result"][module]["row"]: a missing key raises KeyError
Rows(data, module) ==
    LET resp == GetItem(data, "response")
    IN IF ~Has(resp, "result") THEN Raised("KeyError")
       ELSE IF ~Has(GetItem(resp, "result"), module) THEN Raised("KeyError")
       ELSE IF ~Has(GetItem(GetItem(resp, "result"), module), "row")
            THEN Raised("KeyError")
       ELSE Returned(GetItem(GetItem(GetItem(resp, "result"), module), "row"))

\* the mutated normalisation leaves a single row out
RowList_dropSingle(rows) == IF rows.t = "dict" THEN <<>> ELSE rows.xs

\* if type(rows) == dict: rows = [rows]
RowList(rows) == IF rows.t = "dict" THEN <<rows>> ELSE rows.xs

\* for cell in row["FL"]: item[cell["val"]] = cell["content"]
RECURSIVE CellLoop(_, _, _)
CellLoop(item, cells, i) ==
    IF i > Len(cells) THEN item
    ELSE CellLoop(SetItem(item, GetItem(cells[i], "val").s, GetItem(cells[i], "content")),
                  cells, i + 1)

\* for row in rows: ...; output.append(item).  A row without "FL" raises
RECURSIVE OutputLoop(_, _, _)
OutputLoop(output, rows, k) ==
    IF k > Len(rows) THEN Returned(PyList(output))
    ELSE IF ~Has(rows[k], "FL") THEN Raised("KeyError")
    ELSE OutputLoop(Append(output, CellLoop(PyDict(<<>>), GetItem(rows[k], "FL").xs, 1)),
                    rows, k + 1)

_parse_json_response(data, module) ==
    IF ~Has(data, "response") THEN Raised("KeyError")
    ELSE IF NoData(data) THEN Returned(PyList(<<>>))
    ELSE LET rows == Rows(data, module)
         IN IF rows.kind = "raised" THEN rows
            ELSE OutputLoop(<<>>, RowList(rows.value), 1)

(***************************************************************************)
(* Inputs.                                                                 *)
(***************************************************************************)
\* longest list made of one repeated record (row counters past one digit)
MaxRepeat == 11

Modules == {"Leads", "Potentials"}

ElementNames == {"FL", "option"}

Repeat(x, n) == [i \in 1..n |-> x]

\* leads whose values are scalars: strings, a number, a boolean
ScalarRecords ==
    { PyDict(<<>>),
      PyDict(<< <<"Last Name", PyStr("Smith")>> >>),
      PyDict(<< <<"Last Name", PyStr("Smith")>>, <<"LEADID", PyStr("123")>> >>),
      PyDict(<< <<"LEADID", PyInt(120)>>, <<"Email Opt Out", PyBool(FALSE)>> >>) }

NotARecord == PyStr("Smith")

NestedRecords ==
    { PyDict(<< <<"Role", PyStr("Owner")>> >>),
      PyDict(<< <<"Role", PyStr("Agent")>>, <<"Id", PyStr("7")>> >>) }

ModuleKeys == {"contact", "product"}

NestedLists ==
    {PyList(xs) : xs \in SeqUpTo(NestedRecords, MaxNested)}
    \cup {PyList(Repeat(PyDict(<< <<"Role", PyStr("Owner")>> >>), n)) : n \in 1..MaxRepeat}

\* attached groups: no module key, one, or two different ones
AttachmentGroups ==
    {PyDict(<<>>)}
    \cup {PyDict(<< <<m, l>> >>) : m \in ModuleKeys, l \in NestedLists}
    \cup {PyDict(<< <<m[1], l[1]>>, <<m[2], l[2]>> >>) :
             m \in {<<"contact", "product">>, <<"product", "contact">>},
             l \in NestedLists \X NestedLists}

GroupRecords ==
    {PyDict(<< <<"Contact Roles", g>> >>) : g \in AttachmentGroups}
    \cup {PyDict(<< <<"LEADID", PyInt(120)>>, <<"Contact Roles", g>> >>) :
             g \in AttachmentGroups}

EncodeInputs ==
    SeqUpTo(ScalarRecords \cup {NotARecord}, MaxRows)
    \cup {Repeat(PyDict(<< <<"Last Name", PyStr("Smith")>> >>), n) : n \in 1..MaxRepeat}
    \cup {<<r>> : r \in GroupRecords}

Cell(val, content) == PyDict(<< <<"val", PyStr(val)>>, <<"content", PyStr(content)>> >>)

Cells == {Cell("LEADID", "123"), Cell("LEADID", "456"), Cell("Last Name", "Smith")}

\* rows with up to two cells, and a row that lacks its field list
ResponseRows ==
    {PyDict(<< <<"FL", PyList(cs)>> >>) :
        cs \in {<<>>} \cup {<<c>> : c \in Cells} \cup {<<c[1], c[2]>> : c \in Cells \X Cells}}
    \cup {PyDict(<< <<"no", PyStr("1")>> >>)}

\* what the service puts under "row": one bare row, or a list of rows
RowValues(rows, n) == rows \cup {PyList(xs) : xs \in SeqUpTo(rows, n)}

NoDataMarker ==
    PyDict(<< <<"code", PyStr("4422")>>, <<"message", PyStr("There is no data to show")>> >>)

\* the values of "result": no module, a module without rows, a module with rows
Results(rowValues) ==
    {PyDict(<<>>)}
    \cup {PyDict(<< <<m, PyDict(<<>>)>> >>) : m \in Modules}
    \cup {PyDict(<< <<m, PyDict(<< <<"row", x>> >>)>> >>) : m \in Modules, x \in rowValues}

\* the envelopes: with or without the marker, with or without a result
Envelopes(rowValues) ==
    {PyDict(<<>>)}
    \cup {PyDict(<< <<"response", PyDict(<<>>)>> >>)}
    \cup {PyDict(<< <<"response", PyDict(<< <<"nodata", NoDataMarker>> >>)>> >>)}
    \cup {PyDict(<< <<"response", PyDict(<< <<"error", NoDataMarker>> >>)>> >>)}
    \cup {PyDict(<< <<"response", PyDict(<< <<"result", r>> >>)>> >>) : r \in Results(rowValues)}
    \cup {PyDict(<< <<"response", PyDict(<< <<"nodata", NoDataMarker>>, <<"result", r>> >>)>> >>) :
             r \in Results(rowValues)}

DecodeInputs == Envelopes(RowValues(ResponseRows, MaxRows))

(***************************************************************************)
(* The two converters called on their own.                                 *)
(***************************************************************************)
prepare_xml_request ==
    /\ pc = "idle"
    /\ \E module \in Modules, leads \in EncodeInputs, element_name \in ElementNames :
          /\ op' = "_prepare_xml_request"
          /\ args' = [module |-> module, leads |-> leads, element_name |-> element_name]
          /\ ret' = _prepare_xml_request(module, leads, element_name)
    /\ pc' = "done"
    /\ UNCHANGED <<calls, response, responses>>

parse_json_response ==
    /\ pc = "idle"
    /\ \E data \in DecodeInputs, module \in Modules :
          /\ op' = "_parse_json_response"
          /\ args' = [data |-> data, module |-> module]
          /\ ret' = _parse_json_response(data, module)
    /\ pc' = "done"
    /\ UNCHANGED <<calls, response, responses>>

(***************************************************************************)
(* The Connection collaborator (mfabrik.zoho.core), as section 6 of the    *)
(* specification describes it: every call either gives a value back or     *)
(* raises.                                                                 *)
(***************************************************************************)
\* a collaborator call in the log: its name, its arguments, how it ended
Call(fn, arg, out) == [fn |-> fn, arg |-> arg, out |-> out]

\* the raw replies to an XML-bodied call: two successes and an error envelope
XmlResponses ==
    { [kind |-> "xml", success |-> TRUE, body |-> "A"],
      [kind |-> "xml", success |-> TRUE, body |-> "B"],
      [kind |-> "xml", success |-> FALSE, body |-> "4832"] }

\* the transport raising instead of replying
TransportFailure == [kind |-> "failure"]

\* check_successful_xml(response): raises on the service's error envelope
check_successful_xml(r) ==
    IF r.success THEN Returned(PyNone) ELSE Raised("ZohoException")

\* get_inserted_records(response): the ids the reply carries
get_inserted_records(r) == PyList(<<PyStr("inserted:" \o r.body)>>)

\* get_converted_records(response): the converted ids the reply carries
get_converted_records(r) == PyDict(<< <<"Potential", PyStr("converted:" \o r.body)>> >>)

\* decode_json(response): the envelope the raw bytes hold
decode_json(r) ==
    IF r.kind = "json" THEN Returned(r.data) ELSE Raised("ValueError")

OpRows ==
    { PyDict(<< <<"FL", PyList(<<Cell("LEADID", "123"), Cell("Last Name", "Smith")>>)>> >>),
      PyDict(<< <<"FL", PyList(<<Cell("LEADID", "456")>>)>> >>) }

\* the raw replies to a form call: JSON envelopes, and bytes that are no JSON
JsonResponses ==
    {[kind |-> "json", data |-> e] : e \in Envelopes(RowValues(OpRows, MaxRows))}
    \cup {[kind |-> "garbage"]}

(***************************************************************************)
(* Steps shared by the operations.  An operation runs from its call to its *)
(* transport call, and from the transport's reply to its end.              *)
(***************************************************************************)
\* the last call of the log, ended
Settle(cs, out) == [cs EXCEPT ![Len(cs)].out = out]

\* the mutated failure path sends the last transport call again
Propagate_retry(cs, exc) ==
    IF \E k \in DOMAIN cs : cs[k].fn \in {"do_call", "do_xml_call"}
    THEN /\ calls' = Append(cs, [cs[CHOOSE k \in DOMAIN cs :
                                        /\ cs[k].fn \in {"do_call", "do_xml_call"}
                                        /\ \A j \in DOMAIN cs :
                                              cs[j].fn \in {"do_call", "do_xml_call"} => j <= k]
                                 EXCEPT !.out = NoResult])
         /\ ret' = NoResult
         /\ pc' = "transport"
    ELSE /\ calls' = cs
         /\ ret' = Raised(exc)
         /\ pc' = "done"

\* an exception nothing catches: the operation ends, the caller gets it
Propagate(cs, exc) ==
    /\ calls' = cs
    /\ ret' = Raised(exc)
    /\ pc' = "done"

\* the operation returns
Return(cs, value) ==
    /\ calls' = cs
    /\ ret' = Returned(value)
    /\ pc' = "done"

\* the operation waits for the reply to the transport call it just made
Await(cs) ==
    /\ calls' = cs
    /\ ret' = NoResult
    /\ pc' = "transport"

\* self.ensure_opened(), then the request (whose building may raise), then
\* the transport call fn(url, post[, xmldata])
Open(name, a, opened, request, fn) ==
    /\ op' = name
    /\ args' = a
    /\ UNCHANGED <<response, responses>>
    /\ IF ~opened
       THEN Propagate(<<Call("ensure_opened", <<>>, Raised("ZohoException"))>>, "ZohoException")
       ELSE IF request.kind = "raised"
       THEN Propagate(<<Call("ensure_opened", <<>>, Returned(PyNone))>>, request.exc)
       ELSE Await(<<Call("ensure_opened", <<>>, Returned(PyNone)),
                    Call(fn, request.value, NoResult)>>)

\* the reply to the transport call arrives, or the transport raises
Reply(name, r) ==
    /\ op = name
    /\ response' = r

\* response = self.do_call(...); data = decode_json(response);
\* return self._parse_json_response(data, module)
ParsedReply(r, module) ==
    IF decode_json(r).kind = "raised" THEN decode_json(r)
    ELSE _parse_json_response(decode_json(r).value, module)

\* the end of the four operations that return the parsed list as it is
ReturnParsed(name) ==
    \E r \in JsonResponses \cup {TransportFailure} :
       /\ Reply(name, r)
       /\ UNCHANGED <<op, args, responses>>
       /\ IF r.kind = "failure"
          THEN Propagate(Settle(calls, Raised("ZohoException")), "ZohoException")
          ELSE LET parsed == ParsedReply(r, args.module)
               IN IF parsed.kind = "raised"
                  THEN Propagate(Settle(calls, Returned(r)), parsed.exc)
                  ELSE Return(Settle(calls, Returned(r)), parsed.value)

\* the reply of an XML call checked with check_successful_xml
Checked(cs, r) == Append(Settle(cs, Returned(r)), Call("check_successful_xml", r, check_successful_xml(r)))

(***************************************************************************)
(* Inputs of the operations.                                               *)
(***************************************************************************)
RecordIds == {PyStr("1001"), PyStr("1002")}

\* extra POST parameters: none, a default overridden, new keys, the id keys
ExtraParameters ==
    { PyDict(<<>>),
      PyDict(<< <<"duplicateCheck", PyInt(1)>> >>),
      PyDict(<< <<"wfTrigger", PyStr("true")>>, <<"newFormat", PyInt(2)>> >>),
      PyDict(<< <<"leadId", PyStr("9")>>, <<"id", PyStr("9")>> >>) }

OpRecords ==
    { PyDict(<< <<"Last Name", PyStr("Smith")>> >>),
      PyDict(<< <<"LEADID", PyInt(120)>>, <<"Email Opt Out", PyBool(FALSE)>> >>),
      NotARecord }

ConvertLeads ==
    { PyDict(<< <<"LEADID", PyStr("1001")>> >>),
      PyDict(<< <<"Last Name", PyStr("Smith")>>, <<"LEADID", PyStr("1002")>> >>),
      PyDict(<< <<"Last Name", PyStr("Smith")>> >>) }

ExtraData == {PyDict(<<>>), PyDict(<< <<"Potential Name", PyStr("Deal")>> >>)}

SelectColumns == {PyStr("leads(First Name,Last Name,Company)")}

XmlUrl(module, method) == "https://crm.zoho.com/crm/private/xml/" \o module \o "/" \o method

JsonUrl(module, method) == "https://crm.zoho.com/crm/private/json/" \o module \o "/" \o method

\* an XML-bodied request, once its document is built
XmlRequest(url, post, xmldata) ==
    IF xmldata.kind = "raised" THEN xmldata
    ELSE Returned([url |-> url, post |-> post, xmldata |-> xmldata.value])

FormRequest(url, post) == Returned([url |-> url, post |-> post])

(***************************************************************************)
(* CRM.insert_records                                                      *)
(***************************************************************************)
\* the mutated parameters lay the defaults over what the caller passed
InsertPost_defaultsWin(extra_post_parameters) ==
    Update(extra_post_parameters,
           PyDict(<< <<"newFormat", PyInt(1)>>, <<"duplicateCheck", PyInt(2)>> >>))

\* post = {'newFormat': 1, 'duplicateCheck': 2}; post.update(extra_post_parameters)
InsertPost(extra_post_parameters) ==
    Update(PyDict(<< <<"newFormat", PyInt(1)>>, <<"duplicateCheck", PyInt(2)>> >>),
           extra_post_parameters)

insert_records ==
    /\ pc = "idle"
    /\ \E module \in Modules, leads \in SeqUpTo(OpRecords, MaxRows),
          extra \in ExtraParameters, opened \in BOOLEAN :
          Open("insert_records",
               [module |-> module, leads |-> leads, extra_post_parameters |-> extra],
               opened,
               XmlRequest(XmlUrl(module, "insertRecords"), InsertPost(extra),
                          _prepare_xml_request(module, leads, "FL")),
               "do_xml_call")

insert_records_reply ==
    /\ pc = "transport"
    /\ \E r \in XmlResponses \cup {TransportFailure} :
          /\ Reply("insert_records", r)
          /\ UNCHANGED <<op, args, responses>>
          /\ IF r.kind = "failure"
             THEN Propagate(Settle(calls, Raised("ZohoException")), "ZohoException")
             ELSE IF check_successful_xml(r).kind = "raised"
             THEN Propagate(Checked(calls, r), check_successful_xml(r).exc)
             ELSE Return(Append(Checked(calls, r),
                                Call("get_inserted_records", r, Returned(get_inserted_records(r)))),
                         get_inserted_records(r))

(***************************************************************************)
(* CRM.convert_lead                                                        *)
(***************************************************************************)
get_service_name == "ZohoCRM"

\* xml_data_rows: the four fixed options, then extra_data when it is not empty
ConvertRows(extra_data) ==
    LET new_dict == PyDict(<< <<"createPotential", PyBool(FALSE)>>,
                              <<"assignTo", PyStr(get_service_name)>>,
                              <<"notifyLeadOwner", PyBool(FALSE)>>,
                              <<"notifyNewEntityOwner", PyBool(FALSE)>> >>)
    IN IF Truthy(extra_data) THEN <<new_dict, extra_data>> ELSE <<new_dict>>

\* post = {'newFormat': 1, 'duplicateCheck': 2, 'leadId': lead['LEADID']};
\* post.update(extra_post_parameters)
ConvertPost(lead, extra_post_parameters) ==
    Update(PyDict(<< <<"newFormat", PyInt(1)>>, <<"duplicateCheck", PyInt(2)>>,
                     <<"leadId", GetItem(lead, "LEADID")>> >>),
           extra_post_parameters)

\* the mutated list takes each result at its front
AppendResponse_front(rs, result) == <<result>> \o rs

\* responses.append(...)
AppendResponse(rs, result) == Append(rs, result)

\* the head of "for lead in leads" with rs collected so far: the next lead's
\* transport call, or "return responses" after the last lead
ConvertLoop(cs, rs, a) ==
    /\ responses' = rs
    /\ IF Len(rs) >= Len(a.leads) THEN Return(cs, PyList(rs))
       ELSE LET lead == a.leads[Len(rs) + 1]
                xmldata == _prepare_xml_request("Potentials", ConvertRows(a.extra_data), "option")
            IN IF xmldata.kind = "raised" THEN Propagate(cs, xmldata.exc)
               ELSE IF ~Has(lead, "LEADID") THEN Propagate(cs, "KeyError")
               ELSE Await(Append(cs, Call("do_xml_call",
                                          [url |-> XmlUrl("Leads", "convertLead"),
                                           post |-> ConvertPost(lead, a.extra_post_parameters),
                                           xmldata |-> xmldata.value],
                                          NoResult)))

convert_lead ==
    /\ pc = "idle"
    /\ \E leads \in SeqUpTo(ConvertLeads, MaxRows), extra_data \in ExtraData,
          extra \in ExtraParameters, opened \in BOOLEAN :
          LET a == [leads |-> leads, extra_data |-> extra_data, extra_post_parameters |-> extra]
          IN /\ op' = "convert_lead"
             /\ args' = a
             /\ IF ~opened
                THEN /\ Propagate(<<Call("ensure_opened", <<>>, Raised("ZohoException"))>>,
                                  "ZohoException")
                     /\ responses' = <<>>
                ELSE ConvertLoop(<<Call("ensure_opened", <<>>, Returned(PyNone))>>, <<>>, a)
    /\ UNCHANGED response

convert_lead_reply ==
    /\ pc = "transport"
    /\ \E r \in XmlResponses \cup {TransportFailure} :
          /\ Reply("convert_lead", r)
          /\ UNCHANGED <<op, args>>
          /\ IF r.kind = "failure"
             THEN /\ Propagate(Settle(calls, Raised("ZohoException")), "ZohoException")
                  /\ UNCHANGED responses
             ELSE IF check_successful_xml(r).kind = "raised"
             THEN /\ Propagate(Checked(calls, r), check_successful_xml(r).exc)
                  /\ UNCHANGED responses
             ELSE ConvertLoop(Append(Checked(calls, r),
                                     Call("get_converted_records", r,
                                          Returned(get_converted_records(r)))),
                              AppendResponse(responses, get_converted_records(r)),
                              args)

(***************************************************************************)
(* CRM.get_records                                                         *)
(***************************************************************************)
get_records ==
    /\ pc = "idle"
    /\ \E module \in Modules, selectColumns \in SelectColumns,
          parameters \in ExtraParameters, opened \in BOOLEAN :
          Open("get_records",
               [module |-> module, selectColumns |-> selectColumns, parameters |-> parameters],
               opened,
               FormRequest(JsonUrl(module, "getRecords"),
                           Update(PyDict(<< <<"selectColumns", selectColumns>>,
                                            <<"newFormat", PyInt(2)>> >>),
                                  parameters)),
               "do_call")

get_records_reply ==
    /\ pc = "transport"
    /\ ReturnParsed("get_records")

(***************************************************************************)
(* CRM.delete_record                                                       *)
(***************************************************************************)
\* post_params = {}; post_params["id"] = id; post_params.update(parameters)
DeletePost(id, parameters) ==
    Update(SetItem(PyDict(<<>>), "id", id), parameters)

delete_record ==
    /\ pc = "idle"
    /\ \E id \in RecordIds, module \in Modules, parameters \in ExtraParameters,
          opened \in BOOLEAN :
          Open("delete_record",
               [id |-> id, module |-> module, parameters |-> parameters],
               opened,
               FormRequest(XmlUrl(module, "deleteRecords"), DeletePost(id, parameters)),
               "do_call")

\* the end of the two operations that check the reply and return nothing
ReturnChecked(name) ==
    \E r \in XmlResponses \cup {TransportFailure} :
       /\ Reply(name, r)
       /\ UNCHANGED <<op, args, responses>>
       /\ IF r.kind = "failure"
          THEN Propagate(Settle(calls, Raised("ZohoException")), "ZohoException")
          ELSE IF check_successful_xml(r).kind = "raised"
          THEN Propagate(Checked(calls, r), check_successful_xml(r).exc)
          ELSE Return(Checked(calls, r), PyNone)

delete_record_reply ==
    /\ pc = "transport"
    /\ ReturnChecked("delete_record")

(***************************************************************************)
(* CRM.update_record                                                       *)
(***************************************************************************)
\* post = {'newFormat': 1, 'duplicateCheck': 2, 'id': id}
UpdatePost(id) ==
    PyDict(<< <<"newFormat", PyInt(1)>>, <<"duplicateCheck", PyInt(2)>>, <<"id", id>> >>)

update_record ==
    /\ pc = "idle"
    /\ \E module \in Modules, id \in RecordIds, data \in OpRecords, opened \in BOOLEAN :
          Open("update_record",
               [module |-> module, id |-> id, data |-> data],
               opened,
               XmlRequest(XmlUrl(module, "updateRecords"), UpdatePost(id),
                          _prepare_xml_request(module, <<data>>, "FL")),
               "do_xml_call")

update_record_reply ==
    /\ pc = "transport"
    /\ ReturnChecked("update_record")

(***************************************************************************)
(* CRM.get_record_by_id                                                    *)
(***************************************************************************)
\* the mutated result is the parsed list itself
FirstOrNone_list(parsed) == parsed

\* parsed[0] if len(parsed) else None
FirstOrNone(parsed) == IF Len(parsed.xs) # 0 THEN parsed.xs[1] ELSE PyNone

get_record_by_id ==
    /\ pc = "idle"
    /\ \E record_id \in RecordIds, module \in Modules, opened \in BOOLEAN :
          Open("get_record_by_id",
               [record_id |-> record_id, module |-> module],
               opened,
               FormRequest(JsonUrl(module, "getRecordById"),
                           PyDict(<< <<"id", record_id>>, <<"newFormat", PyInt(2)>> >>)),
               "do_call")

get_record_by_id_reply ==
    /\ pc = "transport"
    /\ \E r \in JsonResponses \cup {TransportFailure} :
          /\ Reply("get_record_by_id", r)
          /\ UNCHANGED <<op, args, responses>>
          /\ IF r.kind = "failure"
             THEN Propagate(Settle(calls, Raised("ZohoException")), "ZohoException")
             ELSE LET parsed == ParsedReply(r, args.module)
                  IN IF parsed.kind = "raised"
                     THEN Propagate(Settle(calls, Returned(r)), parsed.exc)
                     ELSE Return(Settle(calls, Returned(r)), FirstOrNone(parsed.value))

(***************************************************************************)
(* CRM.new_search_records, CRM.search_records, CRM.search_records_pdc      *)
(***************************************************************************)
SearchTexts == {PyStr("(Last Name:Smith)")}

new_search_records ==
    /\ pc = "idle"
    /\ \E criteria \in SearchTexts, module \in Modules, selectColumns \in SelectColumns,
          opened \in BOOLEAN :
          Open("new_search_records",
               [criteria |-> criteria, module |-> module, selectColumns |-> selectColumns],
               opened,
               FormRequest(JsonUrl(module, "searchRecords"),
                           PyDict(<< <<"criteria", criteria>>,
                                     <<"selectColumns", selectColumns>>,
                                     <<"newFormat", PyInt(2)>> >>)),
               "do_call")

new_search_records_reply ==
    /\ pc = "transport"
    /\ ReturnParsed("new_search_records")

search_records ==
    /\ pc = "idle"
    /\ \E searchCondition \in SearchTexts, module \in Modules, selectColumns \in SelectColumns,
          opened \in BOOLEAN :
          Open("search_records",
               [searchCondition |-> searchCondition, module |-> module,
                selectColumns |-> selectColumns],
               opened,
               FormRequest(JsonUrl(module, "getSearchRecords"),
                           PyDict(<< <<"selectColumns", selectColumns>>,
                                     <<"searchCondition", searchCondition>>,
                                     <<"newFormat", PyInt(2)>> >>)),
               "do_call")

search_records_reply ==
    /\ pc = "transport"
    /\ ReturnParsed("search_records")

search_records_pdc ==
    /\ pc = "idle"
    /\ \E searchColumn \in {PyStr("email")}, searchValue \in {PyStr("smith@example.com")},
          module \in Modules, selectColumns \in SelectColumns, opened \in BOOLEAN :
          Open("search_records_pdc",
               [searchColumn |-> searchColumn, searchValue |-> searchValue,
                module |-> module, selectColumns |-> selectColumns],
               opened,
               FormRequest(JsonUrl(module, "getSearchRecordsByPDC"),
                           PyDict(<< <<"selectColumns", selectColumns>>,
                                     <<"searchColumn", searchColumn>>,
                                     <<"searchValue", searchValue>>,
                                     <<"newFormat", PyInt(2)>> >>)),
               "do_call")

search_records_pdc_reply ==
    /\ pc = "transport"
    /\ ReturnParsed("search_records_pdc")

(***************************************************************************)
(* The specification: one call of one operation, from the idle client.     *)
(***************************************************************************)
Init ==
    /\ op = "none"
    /\ args = <<>>
    /\ pc = "idle"
    /\ calls = <<>>
    /\ response = NoResult
    /\ responses = <<>>
    /\ ret = NoResult

Next ==
    \/ prepare_xml_request
    \/ parse_json_response
    \/ insert_records
    \/ insert_records_reply
    \/ convert_lead
    \/ convert_lead_reply
    \/ get_records
    \/ get_records_reply
    \/ delete_record
    \/ delete_record_reply
    \/ update_record
    \/ update_record_reply
    \/ get_record_by_id
    \/ get_record_by_id_reply
    \/ new_search_records
    \/ new_search_records_reply
    \/ search_records
    \/ search_records_reply
    \/ search_records_pdc
    \/ search_records_pdc_reply

Spec == Init /\ [][Next]_vars

(***************************************************************************)
(* Properties.                                                             *)
(***************************************************************************)
\* the operation `name` has ended
Done(name) == op = name /\ pc = "done"

\* a dict as a mapping: its set of <<key, value>> pairs, order left out
Pairs(d) == {<<d.items[i][1], d.items[i][2]>> : i \in DOMAIN d.items}

AllRecords(leads) == \A k \in DOMAIN leads : leads[k].t = "dict"

\* C1: for every module name and every non-empty list of N Records,
\* _prepare_xml_request returns a root element named after the module with
\* exactly N children, all `row` elements, the i-th of which has the
\* attribute no equal to the decimal string of i.
C1_RowsNumbered ==
    (Done("_prepare_xml_request") /\ args.leads # <<>> /\ AllRecords(args.leads)) =>
        /\ ret.kind = "returned"
        /\ ret.value.tag = args.module
        /\ Len(ret.value.children) = Len(args.leads)
        /\ \A i \in 1..Len(args.leads) :
              /\ ret.value.children[i].tag = "row"
              /\ ret.value.children[i].attrib = [no |-> ToString(i)]

\* a list long enough for a two-digit row number has been encoded
C1_Witness ==
    /\ Done("_prepare_xml_request")
    /\ AllRecords(args.leads)
    /\ Len(args.leads) >= 10
    /\ ret.kind = "returned"
    /\ ret.value.children[10].attrib.no = "10"

\* the module key of every nested record of an attached group, in the order
\* the records are visited
RECURSIVE FlatKeys(_, _)
FlatKeys(value, k) ==
    IF k > Len(value.items) THEN <<>>
    ELSE [j \in 1..Len(value.items[k][2].xs) |-> value.items[k][1]] \o FlatKeys(value, k + 1)

\* C2: under every field whose value is an attached group, the nested
\* elements are, in creation order, one per nested record of the group over
\* all its module keys, each named after its record's module key, and their
\* no attributes are the decimal strings of 1..M: the counter starts at 1 for
\* the field, goes up by one per nested record and is not reset when the
\* module key changes.
C2_AttachNumbered ==
    (Done("_prepare_xml_request") /\ ret.kind = "returned") =>
        \A k \in DOMAIN args.leads : \A i \in DOMAIN args.leads[k].items :
            LET value == args.leads[k].items[i][2]
                fl == ret.value.children[k].children[i]
            IN value.t = "dict" =>
                  /\ Len(fl.children) = Len(FlatKeys(value, 1))
                  /\ \A m \in 1..Len(fl.children) :
                        /\ fl.children[m].tag = FlatKeys(value, 1)[m]
                        /\ fl.children[m].attrib = [no |-> ToString(m)]

\* a group with two module keys, each with nested records, has been encoded:
\* the first nested element of the second module key is not numbered 1
C2_Witness ==
    /\ Done("_prepare_xml_request")
    /\ ret.kind = "returned"
    /\ \E k \in DOMAIN args.leads : \E i \in DOMAIN args.leads[k].items :
          LET value == args.leads[k].items[i][2]
              fl == ret.value.children[k].children[i]
          IN /\ value.t = "dict"
             /\ Len(value.items) = 2
             /\ Len(value.items[1][2].xs) >= 1
             /\ Len(value.items[2][2].xs) >= 2
             /\ fl.children[Len(value.items[1][2].xs) + 1].tag = value.items[2][1]
             /\ fl.children[Len(value.items[1][2].xs) + 1].attrib.no
                   = ToString(Len(value.items[1][2].xs) + 1)

\* the envelope carries the "no data" marker
HasNoDataMarker(data) ==
    /\ Has(data, "response")
    /\ Has(GetItem(data, "response"), "nodata")

\* every step of the path result -> module -> row is there
PathPresent(data, module) ==
    /\ Has(data, "response")
    /\ Has(GetItem(data, "response"), "result")
    /\ Has(GetItem(GetItem(data, "response"), "result"), module)
    /\ Has(GetItem(GetItem(GetItem(data, "response"), "result"), module), "row")

\* what the envelope holds at result -> module -> row
RowValueOf(data, module) ==
    GetItem(GetItem(GetItem(GetItem(data, "response"), "result"), module), "row")

\* C3: for every envelope that carries the "no data" marker and every module
\* name, _parse_json_response returns the empty list and does not raise,
\* whether or not the path result -> module -> row is present.
C3_NoDataEmpty ==
    (Done("_parse_json_response") /\ HasNoDataMarker(args.data)) =>
        ret = Returned(PyList(<<>>))

\* an envelope with the marker and no result at all has been decoded
C3_Witness ==
    /\ Done("_parse_json_response")
    /\ HasNoDataMarker(args.data)
    /\ ~PathPresent(args.data, args.module)
    /\ ret.kind = "returned"

\* the rows as a sequence, a bare row counted as one
RowsOf(x) == IF x.t = "dict" THEN <<x>> ELSE x.xs

\* the mapping a row's field list stands for: each val with the content of
\* its last occurrence
LastWins(cells) ==
    {<<GetItem(cells[i], "val").s, GetItem(cells[i], "content")>> :
        i \in {i \in DOMAIN cells :
                  \A j \in DOMAIN cells :
                     GetItem(cells[j], "val") = GetItem(cells[i], "val") => j <= i}}

\* the envelope with x at result -> module -> row
EnvelopeOf(module, x) ==
    PyDict(<< <<"response",
                PyDict(<< <<"result",
                            PyDict(<< <<module, PyDict(<< <<"row", x>> >>)>> >>)>> >>)>> >>)

\* C4: for every envelope without the marker whose rows are at
\* result -> module -> row, each row with its field list FL,
\* _parse_json_response returns one Record per row,
\* in row order, output[i] mapping each val of row i to the content of its
\* last occurrence; a single bare row decodes exactly as the one-element list
\* holding it.
C4_OneRecordPerRow ==
    (/\ Done("_parse_json_response")
     /\ ~HasNoDataMarker(args.data)
     /\ PathPresent(args.data, args.module)
     /\ \A k \in DOMAIN RowsOf(RowValueOf(args.data, args.module)) :
           Has(RowsOf(RowValueOf(args.data, args.module))[k], "FL")) =>
        LET x == RowValueOf(args.data, args.module)
        IN /\ ret.kind = "returned"
           /\ Len(ret.value.xs) = Len(RowsOf(x))
           /\ \A i \in 1..Len(RowsOf(x)) :
                 /\ i \in DOMAIN ret.value.xs
                 /\ Pairs(ret.value.xs[i]) = LastWins(GetItem(RowsOf(x)[i], "FL").xs)
           /\ x.t = "dict" =>
                 ret = _parse_json_response(EnvelopeOf(args.module, PyList(<<x>>)), args.module)

\* a single bare row in which a val occurs twice with different contents has
\* been decoded
C4_Witness ==
    /\ Done("_parse_json_response")
    /\ ~HasNoDataMarker(args.data)
    /\ PathPresent(args.data, args.module)
    /\ LET x == RowValueOf(args.data, args.module)
       IN /\ x.t = "dict"
          /\ Has(x, "FL")
          /\ Len(GetItem(x, "FL").xs) = 2
          /\ GetItem(GetItem(x, "FL").xs[1], "val") = GetItem(GetItem(x, "FL").xs[2], "val")
          /\ GetItem(GetItem(x, "FL").xs[1], "content") # GetItem(GetItem(x, "FL").xs[2], "content")
    /\ ret.kind = "returned"
    /\ Len(ret.value.xs) = 1

\* C9: for every envelope without the marker in which a step of the path
\* result -> module -> row is absent, _parse_json_response raises (KeyError,
\* the malformed-response outcome) and returns no list.
C9_MalformedRaises ==
    (/\ Done("_parse_json_response")
     /\ ~HasNoDataMarker(args.data)
     /\ ~PathPresent(args.data, args.module)) =>
        ret = Raised("KeyError")

\* an envelope with rows for another module only has been decoded
C9_Witness ==
    /\ Done("_parse_json_response")
    /\ ~HasNoDataMarker(args.data)
    /\ Has(args.data, "response")
    /\ Has(GetItem(args.data, "response"), "result")
    /\ GetItem(GetItem(args.data, "response"), "result").items # <<>>
    /\ ~Has(GetItem(GetItem(args.data, "response"), "result"), args.module)
    /\ ret.kind = "raised"

\* what a response cell carries for an encoded field element: its text, or
\* its nested elements when it has any
ContentOf(el) ==
    IF el.children = <<>> THEN el.text ELSE [t |-> "elements", xs |-> el.children]

\* the response row equivalent to an encoded row: one FL entry per field
\* element, val its val attribute, content its content
EquivalentRow(row) ==
    PyDict(<< <<"FL",
                PyList([i \in DOMAIN row.children |->
                           PyDict(<< <<"val", PyStr(row.children[i].attrib.val)>>,
                                     <<"content", ContentOf(row.children[i])>> >>)])>> >>)

\* the encoded row of the one Record that was encoded, decoded again
RoundTrip ==
    _parse_json_response(EnvelopeOf(args.module, EquivalentRow(ret.value.children[1])),
                         args.module)

\* exactly one Record has been encoded
EncodedOne ==
    /\ Done("_prepare_xml_request")
    /\ Len(args.leads) = 1
    /\ args.leads[1].t = "dict"
    /\ ret.kind = "returned"

\* C5 as stated, for the Records without attached groups: encoding [R] and
\* decoding the equivalent response row gives one Record with the same
\* key/value pairs as R, the values identical to the input values.
C5_RoundTripIdentical ==
    (EncodedOne /\ \A i \in DOMAIN args.leads[1].items : args.leads[1].items[i][2].t # "dict") =>
        /\ RoundTrip.kind = "returned"
        /\ Len(RoundTrip.value.xs) = 1
        /\ Pairs(RoundTrip.value.xs[1]) = Pairs(args.leads[1])

\* C5 amended: encoding [R] and decoding the equivalent response row gives
\* one Record with the same keys as R; a string value comes back identical,
\* any other scalar comes back as its string (a number as its decimal
\* digits, a boolean as "True" or "False"), and an attached group comes back
\* as the content of its field element, not as the mapping that went in.
C5_RoundTripStrings ==
    EncodedOne =>
        /\ RoundTrip.kind = "returned"
        /\ Len(RoundTrip.value.xs) = 1
        /\ LET R == args.leads[1]
               back == RoundTrip.value.xs[1]
           IN /\ {p[1] : p \in Pairs(back)} = {p[1] : p \in Pairs(R)}
              /\ \A i \in DOMAIN R.items :
                    LET key == R.items[i][1]
                        value == R.items[i][2]
                    IN CASE value.t = "str"  -> GetItem(back, key) = value
                         [] value.t = "int"  -> GetItem(back, key) = PyStr(ToString(value.n))
                         [] value.t = "bool" ->
                               GetItem(back, key) = PyStr(IF value.b THEN "True" ELSE "False")
                         [] value.t = "dict" ->
                               /\ GetItem(back, key) = ContentOf(ret.value.children[1].children[i])
                               /\ GetItem(back, key) # value

\* a Record with a string value and one with a number have been round-tripped
C5_Witness ==
    /\ EncodedOne
    /\ \E i \in DOMAIN args.leads[1].items : args.leads[1].items[i][2].t = "int"
    /\ \E i \in DOMAIN args.leads[1].items : args.leads[1].items[i][2].t = "bool"
    /\ RoundTrip.kind = "returned"
    /\ GetItem(RoundTrip.value.xs[1], "LEADID") = PyStr("120")

\* the transport calls of the log, in the order they were made
TransportCalls == SelectSeq(calls, LAMBDA c : c.fn \in {"do_call", "do_xml_call"})

\* the fixed protocol parameters of the write operations
ProtocolDefaults == {<<"newFormat", PyInt(1)>>, <<"duplicateCheck", PyInt(2)>>}

\* the extra parameters the caller passed to the running write operation;
\* update_record takes none
CallerParameters ==
    CASE op = "insert_records" -> args.extra_post_parameters
      [] op = "convert_lead"   -> args.extra_post_parameters
      [] op = "delete_record"  -> args.parameters
      [] op = "update_record"  -> PyDict(<<>>)

\* post is the defaults overlaid with the caller's parameters
DefaultsOverlaid(post, extra) ==
    /\ Pairs(extra) \subseteq Pairs(post)
    /\ \A d \in ProtocolDefaults : ~Has(extra, d[1]) => d \in Pairs(post)

\* C7 as stated: every write operation (insert_records, update_record,
\* delete_record, convert_lead) sends the protocol defaults overlaid with the
\* caller's extra parameters.
C7_AllWritesSendDefaults ==
    op \in {"insert_records", "update_record", "delete_record", "convert_lead"} =>
        \A k \in DOMAIN TransportCalls :
            DefaultsOverlaid(TransportCalls[k].arg.post, CallerParameters)

\* C7 amended: insert_records and convert_lead send the protocol defaults
\* overlaid with the caller's extra parameters (every caller key with the
\* caller's value, every default the caller did not pass with its default
\* value); update_record takes no extra parameters and sends the defaults and
\* the id; delete_record sends no protocol defaults: only the id overlaid
\* with the caller's parameters.
C7_WritesSendParameters ==
    /\ op \in {"insert_records", "update_record", "convert_lead"} =>
          \A k \in DOMAIN TransportCalls :
              DefaultsOverlaid(TransportCalls[k].arg.post, CallerParameters)
    /\ op = "update_record" =>
          \A k \in DOMAIN TransportCalls :
              Pairs(TransportCalls[k].arg.post) = ProtocolDefaults \cup {<<"id", args.id>>}
    /\ op = "delete_record" =>
          \A k \in DOMAIN TransportCalls :
              LET post == TransportCalls[k].arg.post
              IN /\ Pairs(args.parameters) \subseteq Pairs(post)
                 /\ ~Has(args.parameters, "id") => <<"id", args.id>> \in Pairs(post)
                 /\ \A p \in Pairs(post) : p[1] = "id" \/ p \in Pairs(args.parameters)

\* insert_records has sent its call with a caller value on a default's key
C7_Witness ==
    /\ op = "insert_records"
    /\ Len(TransportCalls) = 1
    /\ Has(args.extra_post_parameters, "duplicateCheck")
    /\ GetItem(TransportCalls[1].arg.post, "duplicateCheck") = PyInt(1)
    /\ GetItem(TransportCalls[1].arg.post, "newFormat") = PyInt(1)

\* the leadId the call for lead must carry
LeadIdFor(lead) ==
    IF Has(args.extra_post_parameters, "leadId")
    THEN GetItem(args.extra_post_parameters, "leadId")
    ELSE GetItem(lead, "LEADID")

\* the value returned holds one result per input record, result i being the
\* one extracted from the reply to the i-th transport call, made for record i
ConvertedInOrder ==
    /\ ret.kind = "returned"
    /\ Len(ret.value.xs) = Len(args.leads)
    /\ Len(TransportCalls) = Len(args.leads)
    /\ \A i \in 1..Len(args.leads) :
          /\ GetItem(TransportCalls[i].arg.post, "leadId") = LeadIdFor(args.leads[i])
          /\ TransportCalls[i].out.kind = "returned"
          /\ ret.value.xs[i] = get_converted_records(TransportCalls[i].out.value)

\* C6 as stated, for a session that opened, records that all carry LEADID
\* and no leadId among the extra parameters: convert_lead with N records
\* always returns N results in input order, whatever the remote service does.
C6_AlwaysReturnsAll ==
    (/\ Done("convert_lead")
     /\ calls[1].out.kind = "returned"
     /\ \A i \in DOMAIN args.leads : Has(args.leads[i], "LEADID")
     /\ ~Has(args.extra_post_parameters, "leadId")) =>
        ConvertedInOrder

\* C6 amended: whenever convert_lead returns, it returns exactly N results
\* for N input records, result i being the converted-record result extracted
\* from the reply to the i-th transport call, which is the call made for
\* input record i (its leadId is that record's LEADID, unless the extra
\* parameters carry a leadId of their own); it does not return when
\* ensure_opened, a transport call or a success check raises or a record
\* has no LEADID: it raises.
C6_ReturnsAllWhenReturns ==
    (Done("convert_lead") /\ ret.kind = "returned") => ConvertedInOrder

\* convert_lead has returned for as many records as the bound allows, the
\* replies differing from record to record
C6_Witness ==
    /\ Done("convert_lead")
    /\ ret.kind = "returned"
    /\ Len(args.leads) = MaxRows
    /\ args.leads[1] # args.leads[2]
    /\ ret.value.xs[1] # ret.value.xs[2]

\* what get_record_by_id's reply decodes to
ParsedById == ParsedReply(response, args.module)

\* C8: get_record_by_id returns None exactly when the decoded response has
\* no rows, and otherwise the first decoded Record itself, a mapping and
\* never a list; a response without rows never makes it raise.
C8_FirstRecordOrNone ==
    (/\ Done("get_record_by_id")
     /\ response.kind = "json"
     /\ ParsedById.kind = "returned") =>
        /\ ret.kind = "returned"
        /\ ret.value.t \in {"none", "dict"}
        /\ ret.value.t = "none" <=> Len(ParsedById.value.xs) = 0
        /\ Len(ParsedById.value.xs) > 0 => ret.value = ParsedById.value.xs[1]

\* get_record_by_id has answered a reply that decodes to no rows
C8_Witness ==
    /\ Done("get_record_by_id")
    /\ response.kind = "json"
    /\ ParsedById = Returned(PyList(<<>>))
    /\ ret = Returned(PyNone)

\* the transport call an operation makes
TransportOf(name) ==
    IF name \in {"insert_records", "update_record", "convert_lead"}
    THEN "do_xml_call" ELSE "do_call"

Operations ==
    {"insert_records", "convert_lead", "get_records", "delete_record", "update_record",
     "get_record_by_id", "new_search_records", "search_records", "search_records_pdc"}

\* C10: in every run of every operation the collaborator calls are
\* ensure_opened first and only once, then the operation's transport call:
\* at most one, and exactly one when the operation returns; for convert_lead
\* at most one per input record, the i-th for record i, and exactly N when
\* it returns.  Every call but the last of the log has returned: nothing is
\* called after a call that raised, no call is made again, and an operation
\* one of whose calls raised has ended by raising.
C10_CallSequence ==
    op \in Operations =>
        /\ calls # <<>>
        /\ calls[1].fn = "ensure_opened"
        /\ \A k \in 2..Len(calls) : calls[k].fn # "ensure_opened"
        /\ \A k \in DOMAIN TransportCalls : TransportCalls[k].fn = TransportOf(op)
        /\ Len(TransportCalls) <= (IF op = "convert_lead" THEN Len(args.leads) ELSE 1)
        /\ ret.kind = "returned" =>
              Len(TransportCalls) = (IF op = "convert_lead" THEN Len(args.leads) ELSE 1)
        /\ op = "convert_lead" =>
              \A i \in DOMAIN TransportCalls :
                  GetItem(TransportCalls[i].arg.post, "leadId") = LeadIdFor(args.leads[i])
        /\ \A k \in 1..(Len(calls) - 1) : calls[k].out.kind = "returned"
        /\ calls[Len(calls)].out.kind = "none" <=> pc = "transport"
        /\ calls[Len(calls)].out.kind = "raised" =>
              pc = "done" /\ ret.kind = "raised"

\* convert_lead has stopped at its second record: the first went through,
\* the second reply failed its success check, and nothing was called after
C10_Witness ==
    /\ Done("convert_lead")
    /\ Len(args.leads) >= 2
    /\ Len(TransportCalls) = 2
    /\ Len(calls) = 6
    /\ calls[4].fn = "get_converted_records"
    /\ calls[6].fn = "check_successful_xml"
    /\ calls[6].out.kind = "raised"
    /\ ret.kind = "raised"

====
